---- MODULE Spec2Model ----
(***************************************************************************)
(* Deposit verification and balance settlement: the POST /api/verify-slip  *)
(* handler of src/app/api/verify-slip/route.ts, run by several requests    *)
(* that share one settlement store (PaymentTransaction table, UserBalance  *)
(* rows).  One action is one stretch of the handler between two awaits.    *)
(***************************************************************************)
EXTENDS Integers, FiniteSets, Sequences, TLC

\* ------------------------------------------------------------------ bounds
MaxAmount == 2          \* verified amounts are 1..MaxAmount
MaxDay == 2             \* calendar days 1..MaxDay
DailyLimit == 3         \* dailyLimit of the one DepositLimit tier
Reqs == {1, 2}          \* request slots (concurrent POSTs)
TransRefs == {"T1", "T2"}

\* ------------------------------------------------------------ program data
NoUser == 0             \* getUser() returned null: user?.id || null
MaxFileSize == 10485760 \* 10 * 1024 * 1024
Users == {1, 2, 3}
Absent == "absent"      \* an optional field the provider left out
NoAccount ==
  [present |-> FALSE, th |-> Absent, en |-> Absent, type |-> Absent, account |-> Absent]
NoSlip == [verified |-> FALSE, receiver |-> NoAccount, transRef |-> "", amount |-> 0]
NoTx == [rows |-> {}, credit |-> 0, lock |-> NoUser]
Amounts == 1..MaxAmount
Days == 1..MaxDay

EXPECTED_RECEIVER ==
  [th |-> "TH EXPERT", en |-> "EXPERT 8", account |-> "XXX-X-XX730-5", type |-> "BANKAC"]

\* users.depositLimitId joined to depositLimits: users 1 and 2 have the tier,
\* user 3 has none
DepositLimitOf(u) == IF u \in {1, 2} THEN [dailyLimit |-> DailyLimit, some |-> TRUE]
                     ELSE [dailyLimit |-> 0, some |-> FALSE]

\* every user owns one UserBalance row
UserBalanceRows == Users

\* ------------------------------------------------------------------- state
VARIABLES
  pc,        \* where each request is in POST
  user,      \* the user getUser() gave the request
  file,      \* the 'slip' form field
  slip,      \* the provider's data for the request
  response,  \* the message of the response sent
  rows,      \* committed PaymentTransaction rows
  balance,   \* committed UserBalance.balance per user
  tx,        \* the open settlement transaction of each request
  day,       \* the current calendar day
  seen,      \* the daily total the limit check read
  txerr,     \* why the settlement of the request failed
  credited,  \* the balance increase the request's commit made
  prior,     \* requests answered success before this one was received
  notified,  \* notifications sent by the request
  claimed,   \* the 'amount' form field of the request
  provider,  \* how the call to the verification provider ended
  steps,     \* the steps of POST the request has taken, in order
  sent,      \* the notifications handed to sendDepositNotification
  prices,           \* GoldPrices: the prices state
  productSettings,  \* GoldPrices: the productSettings state
  received,         \* GoldPrices: the prices of the last price-update event
  lastEvent,        \* GoldPrices: what the component handled last
  effectPending,    \* GoldPrices: the effect on [productSettings] is due
  fetches,          \* GoldPrices: completed calls of fetchData
  units,            \* sell dialog: holdings of the selected gold type, in 0.0001 baht-weight
  selectedGoldType, \* sell dialog: the gold type being sold
  sellUnits,        \* sell dialog: the grams entered, in 0.01 g (-1: empty)
  bathAmount        \* sell dialog: the amount handleSellSubmit sent, in 0.0001 baht-weight

\* the state of the route
route == <<pc, user, file, slip, response, rows, balance, tx, day, seen, txerr,
           credited, prior, notified, claimed, provider, steps, sent>>

\* the state of the GoldPrices component
page == <<prices, productSettings, received, lastEvent, effectPending, fetches,
          units, selectedGoldType, sellUnits, bathAmount>>

vars == <<route, page>>

\* what the actions after Receive leave alone
inputs == <<user, file, claimed>>

\* ---------------------------------------------------------- pure functions
\* ------------------------------------------------------------ GoldPrices
MaxBid == 2        \* bids 1..MaxBid tell the price lists of the events apart
MaxFetches == 2    \* completions of fetchData
MaxUnits == 40     \* holdings up to MaxUnits * 0.0001 baht-weight

\* GOLD_TYPES: "Samakhom" stands for the association's price name, the values
\* for the gold types 96.5% and 99.99%
GOLD_TYPES == [n \in {"Samakhom", "99.99%"} |->
                 IF n = "Samakhom" THEN "Gold 96.5%" ELSE "Gold 99.99%"]

GoldTypes == {GOLD_TYPES[n] : n \in DOMAIN GOLD_TYPES}

\* the names a price feed carries: the two of GOLD_TYPES and one it does not know
PriceNames == DOMAIN GOLD_TYPES \cup {"Spot"}

PriceLists ==
  {{[name |-> n, bid |-> b] : n \in ns} : ns \in SUBSET PriceNames, b \in 1..MaxBid}

\* a ProductSettings list, by gold type: its isActive, or missing from the list
AllSettings == [GoldTypes -> {"active", "inactive", "missing"}]

NoSettings == [t \in GoldTypes |-> "missing"]

\* the productSettings of the render whose effect bound the handlers
MountSettings == NoSettings

\* setting?.isActive ?? true
filterPricesWithSettings_MissingIsActive(ps, settings) ==
  {price \in ps :
     /\ price.name \in DOMAIN GOLD_TYPES
     /\ settings[GOLD_TYPES[price.name]] # "inactive"}

filterPricesWithSettings(ps, settings) ==
  {price \in ps :
     /\ price.name \in DOMAIN GOLD_TYPES
     /\ settings[GOLD_TYPES[price.name]] = "active"}

\* grams per baht-weight, in 0.001 g
BAHT_TO_GRAM == [t \in GoldTypes |-> IF t = "Gold 96.5%" THEN 15200 ELSE 15244]

ConversionRate(goldType) ==
  IF goldType \in DOMAIN BAHT_TO_GRAM THEN BAHT_TO_GRAM[goldType]
  ELSE BAHT_TO_GRAM["Gold 96.5%"]

\* toFixed: num / den to the nearest whole
ToFixed(num, den) == (2 * num + den) \div (2 * den)

\* (bathAmount * conversionRate).toFixed(2): 0.0001 baht-weight to 0.01 g
calculateGrams(amount, goldType) == ToFixed(amount * ConversionRate(goldType), 100000)

\* (gramAmount / conversionRate).toFixed(4): 0.01 g to 0.0001 baht-weight
calculateBaht(gramAmount, goldType) == ToFixed(gramAmount * 100000, ConversionRate(goldType))

\* the grams the input may be given
GramInputs == 0..calculateGrams(MaxUnits, "Gold 99.99%") + 1

\* ------------------------------------------------------------ verify-slip
\* file.type as the text before and after its first "/"
ImagePng == <<"image", "/", "png">>
NoFile == [present |-> FALSE, size |-> 0, type |-> <<>>]

\* the files the requests of the settlement specification carry
Files ==
  {NoFile,
   [present |-> TRUE, size |-> MaxFileSize + 1, type |-> ImagePng],
   [present |-> TRUE, size |-> 1, type |-> <<"application", "/", "pdf">>],
   [present |-> TRUE, size |-> 1, type |-> ImagePng]}

\* files of every size around the limit and of every kind of type
AllFiles ==
  {NoFile} \cup
  [present : {TRUE},
   size : {0, 1, MaxFileSize - 1, MaxFileSize, MaxFileSize + 1, 11 * 1024 * 1024},
   type : {ImagePng, <<"application", "/", "pdf">>, <<"image">>, <<>>}]

\* the amounts the user may claim in the form
Claimed == {1, DailyLimit + 1}

StartsWith(s, prefix) ==
  Len(s) >= Len(prefix) /\ SubSeq(s, 1, Len(prefix)) = prefix

\* file.size >= 10 * 1024 * 1024
FileCheck_AtLimit(f) ==
  IF ~f.present THEN "invalid_payload"
  ELSE IF f.size >= MaxFileSize THEN "image_size_too_large"
  ELSE IF ~StartsWith(f.type, <<"image", "/">>) THEN "invalid_image"
  ELSE "ok"

\* the checks of the file, in the order POST makes them
FileCheck(f) ==
  IF ~f.present THEN "invalid_payload"
  ELSE IF f.size > MaxFileSize THEN "image_size_too_large"
  ELSE IF ~StartsWith(f.type, <<"image", "/">>) THEN "invalid_image"
  ELSE "ok"

\* the amount used is the verified one; the form field is never read
DepositAmount_Claimed(claimedAmount, verifiedAmount) == claimedAmount

DepositAmount(claimedAmount, verifiedAmount) == verifiedAmount

\* the receivers the provider may report: every field right, wrong or absent
AllReceivers ==
  [present : {TRUE},
   th : {EXPECTED_RECEIVER.th, "TH OTHER", Absent},
   en : {EXPECTED_RECEIVER.en, "OTHER 9", Absent},
   type : {"BANKAC", "TOKEN", "DUMMY"},
   account : {EXPECTED_RECEIVER.account, "XXX-X-XX111-1"}]
  \cup
  [present : {TRUE},
   th : {EXPECTED_RECEIVER.th, "TH OTHER", Absent},
   en : {EXPECTED_RECEIVER.en, "OTHER 9", Absent},
   type : {Absent},
   account : {Absent}]
  \cup {NoAccount}

ExpectedAccount ==
  [present |-> TRUE, th |-> EXPECTED_RECEIVER.th, en |-> EXPECTED_RECEIVER.en,
   type |-> EXPECTED_RECEIVER.type, account |-> EXPECTED_RECEIVER.account]

\* the receivers the requests of the settlement specification carry
SomeReceivers ==
  {ExpectedAccount,
   [ExpectedAccount EXCEPT !.account = "XXX-X-XX111-1"],
   NoAccount}

\* the two names joined by "and": one right name is enough
validateReceiver_EitherName(receiver) ==
  IF ~receiver.present THEN FALSE
  ELSE IF receiver.th # EXPECTED_RECEIVER.th /\ receiver.en # EXPECTED_RECEIVER.en
       THEN FALSE
  ELSE IF receiver.type # EXPECTED_RECEIVER.type
          \/ receiver.account # EXPECTED_RECEIVER.account
       THEN FALSE
  ELSE TRUE

validateReceiver(receiver) ==
  IF ~receiver.present THEN FALSE
  ELSE IF receiver.th # EXPECTED_RECEIVER.th \/ receiver.en # EXPECTED_RECEIVER.en
       THEN FALSE
  ELSE IF receiver.type # EXPECTED_RECEIVER.type
          \/ receiver.account # EXPECTED_RECEIVER.account
       THEN FALSE
  ELSE TRUE

\* existingSlip.length > 1
checkSlipAlreadyUsed_MoreThanOne(rs, transRef) ==
  Cardinality({row \in rs : row.transRef = transRef}) > 1

checkSlipAlreadyUsed(rs, transRef) ==
  \E row \in rs : row.transRef = transRef

RECURSIVE SumAmounts(_)
SumAmounts(S) ==
  IF S = {} THEN 0
  ELSE LET row == CHOOSE x \in S : TRUE
       IN row.amount + SumAmounts(S \ {row})

\* COALESCE(sum(amount), '0') over the user's rows created since midnight
\* the sum without gte(createdAt, today)
DailyTotal_AllDays(rs, userId, today) ==
  SumAmounts({row \in rs : row.userId = userId})

DailyTotal(rs, userId, today) ==
  SumAmounts({row \in rs : row.userId = userId /\ row.createdAt >= today})

\* newDailyTotal >= dailyLimit
ExceedsLimit_Inclusive(dailyTotalAmount, amount, dailyLimit) ==
  dailyTotalAmount + amount >= dailyLimit

ExceedsLimit(dailyTotalAmount, amount, dailyLimit) ==
  dailyTotalAmount + amount > dailyLimit

HasDepositLimit(userId) == DepositLimitOf(userId).some

checkDepositLimits(rs, userId, amount, today) ==
  IF ~HasDepositLimit(userId)
  THEN [allowed |-> FALSE, message |-> "No deposit limit set for user"]
  ELSE IF ExceedsLimit(DailyTotal(rs, userId, today), amount,
                       DepositLimitOf(userId).dailyLimit)
       THEN [allowed |-> FALSE, message |-> "Deposit would exceed daily limit"]
       ELSE [allowed |-> TRUE, message |-> ""]

\* the row recordVerifiedSlip inserts
NewRow(r, transRef, amount, userId, now) ==
  [id |-> r, status |-> "CP", amount |-> amount, userId |-> userId,
   method |-> "BANK", transRef |-> transRef, createdAt |-> now]

\* the settlement store refuses a second row with a transRef it holds
UniqueViolation(rs, transRef) ==
  \E row \in rs : row.transRef = transRef

\* the balance of the user's UserBalance row, 0 with no row
BalanceOf(bal, userId) == IF userId \in DOMAIN bal THEN bal[userId] ELSE 0

\* balance = balance - amount
CreditBalance_Debit(bal, userId, amount) ==
  [u \in DOMAIN bal |-> IF u = userId THEN bal[u] - amount ELSE bal[u]]

\* balance = amount
CreditBalance_Overwrite(bal, userId, amount) ==
  [u \in DOMAIN bal |-> IF u = userId THEN amount ELSE bal[u]]

\* balance = balance + amount on the rows WHERE userId = userId
CreditBalance(bal, userId, amount) ==
  [u \in DOMAIN bal |-> IF u = userId THEN bal[u] + amount ELSE bal[u]]

\* the insert made outside the transaction
VisibleRows_Uncommitted(committed, pending) == committed \cup pending

\* what the other requests see of a transaction that has not committed
VisibleRows(committed, pending) == committed

\* the insert survives the failure
RolledBack_KeepsInsert(committed, pending) == committed \cup pending

\* what a rolled-back transaction leaves in the table
RolledBack(committed, pending) == committed

\* ------------------------------------------------------------------ Init
InitRouteOn(balanceRows) ==
  /\ pc = [r \in Reqs |-> "idle"]
  /\ user = [r \in Reqs |-> NoUser]
  /\ file = [r \in Reqs |-> NoFile]
  /\ slip = [r \in Reqs |-> NoSlip]
  /\ response = [r \in Reqs |-> "none"]
  /\ rows = {}
  /\ balance = [u \in balanceRows |-> 0]
  /\ tx = [r \in Reqs |-> NoTx]
  /\ day = 1
  /\ seen = [r \in Reqs |-> -1]
  /\ txerr = [r \in Reqs |-> "none"]
  /\ credited = [r \in Reqs |-> 0]
  /\ prior = [r \in Reqs |-> {}]
  /\ notified = [r \in Reqs |-> 0]
  /\ claimed = [r \in Reqs |-> 1]
  /\ provider = [r \in Reqs |-> "none"]
  /\ steps = [r \in Reqs |-> <<>>]
  /\ sent = {}

InitRoute == InitRouteOn(UserBalanceRows)

\* GoldPrices after its first render
InitPage ==
  /\ prices = {}
  /\ productSettings = NoSettings
  /\ received = {}
  /\ lastEvent = "mount"
  /\ effectPending = FALSE
  /\ fetches = 0
  /\ units = 0
  /\ selectedGoldType = ""
  /\ sellUnits = -1
  /\ bathAmount = -1

Init == InitRoute /\ InitPage

\* ---------------------------------------------------------------- actions
\* the catch block of POST
CatchResponse(error) == "server_error"

Respond(r, message) ==
  /\ pc' = [pc EXCEPT ![r] = "responded"]
  /\ response' = [response EXCEPT ![r] = message]

Step(r, names) == steps' = [steps EXCEPT ![r] = @ \o names]

\* the table as a request other than the writers reads it
Visible == VisibleRows(rows, UNION {tx[q].rows : q \in Reqs})

\* getUser, formData and the checks of the file
Receive(r, files) ==
  /\ UNCHANGED <<sent, page>>
  /\ pc[r] = "idle"
  /\ \E u \in Users \cup {NoUser}, f \in files, c \in Claimed :
       /\ user' = [user EXCEPT ![r] = u]
       /\ file' = [file EXCEPT ![r] = f]
       /\ claimed' = [claimed EXCEPT ![r] = c]
       /\ IF FileCheck(f) # "ok" THEN Respond(r, FileCheck(f))
          ELSE /\ pc' = [pc EXCEPT ![r] = "fetch"]
               /\ UNCHANGED response
  /\ prior' = [prior EXCEPT ![r] = {q \in Reqs : response[q] = "success"}]
  /\ UNCHANGED <<slip, rows, balance, tx, day, seen, txerr, credited, notified,
                 provider, steps>>

\* fetch(API_URL) throws
FetchThrows(r) ==
  /\ UNCHANGED <<sent, page>>
  /\ pc[r] = "fetch"
  /\ provider' = [provider EXCEPT ![r] = "throw"]
  /\ Step(r, <<"provider">>)
  /\ Respond(r, CatchResponse("fetch"))
  /\ UNCHANGED <<inputs, slip, rows, balance, tx, day, seen, txerr, credited,
                 prior, notified>>

\* a status that is not 2xx thrown as an error
FetchNotOk_Throws(r) ==
  /\ UNCHANGED <<sent, page>>
  /\ pc[r] = "fetch"
  /\ provider' = [provider EXCEPT ![r] = "not_ok"]
  /\ Step(r, <<"provider">>)
  /\ Respond(r, CatchResponse("not_ok"))
  /\ UNCHANGED <<inputs, slip, rows, balance, tx, day, seen, txerr, credited,
                 prior, notified>>

\* !response.ok
FetchNotOk(r) ==
  /\ UNCHANGED <<sent, page>>
  /\ pc[r] = "fetch"
  /\ provider' = [provider EXCEPT ![r] = "not_ok"]
  /\ Step(r, <<"provider">>)
  /\ Respond(r, "invalid_slip")
  /\ UNCHANGED <<inputs, slip, rows, balance, tx, day, seen, txerr, credited,
                 prior, notified>>

\* !data.data
FetchNoData(r) ==
  /\ UNCHANGED <<sent, page>>
  /\ pc[r] = "fetch"
  /\ provider' = [provider EXCEPT ![r] = "no_data"]
  /\ Step(r, <<"provider">>)
  /\ Respond(r, "invalid_slip")
  /\ UNCHANGED <<inputs, slip, rows, balance, tx, day, seen, txerr, credited,
                 prior, notified>>

\* the provider verified the slip: validateReceiver and the test of transRef
FetchData(r, receivers) ==
  /\ UNCHANGED <<sent, page>>
  /\ pc[r] = "fetch"
  /\ provider' = [provider EXCEPT ![r] = "data"]
  /\ Step(r, <<"provider", "receiver">>)
  /\ \E rc \in receivers, t \in TransRefs \cup {""}, a \in Amounts :
       /\ slip' = [slip EXCEPT ![r] =
                     [verified |-> TRUE, receiver |-> rc, transRef |-> t, amount |-> a]]
       /\ IF ~validateReceiver(rc) THEN Respond(r, "invalid_receiver")
          ELSE IF t = "" THEN Respond(r, "success")
          ELSE /\ pc' = [pc EXCEPT ![r] = "dupcheck"]
               /\ UNCHANGED response
  /\ UNCHANGED <<inputs, rows, balance, tx, day, seen, txerr, credited, prior,
                 notified>>

\* the limit check made before the duplicate check
CheckUsed_LimitFirst(r) ==
  /\ UNCHANGED <<sent, page>>
  /\ pc[r] = "dupcheck"
  /\ Step(r, <<"duplicate">>)
  /\ IF user[r] # NoUser
        /\ ~checkDepositLimits(Visible, user[r], slip[r].amount, day).allowed
     THEN Respond(r, "deposit_limit_exceeded")
     ELSE IF checkSlipAlreadyUsed(Visible, slip[r].transRef)
     THEN Respond(r, "slip_already_used")
     ELSE /\ pc' = [pc EXCEPT ![r] = IF user[r] # NoUser THEN "limit" ELSE "record"]
          /\ UNCHANGED response
  /\ UNCHANGED <<inputs, slip, rows, balance, tx, day, seen, txerr, credited,
                 prior, notified, provider>>

\* await checkSlipAlreadyUsed(data.data.transRef)
CheckUsed(r) ==
  /\ UNCHANGED <<sent, page>>
  /\ pc[r] = "dupcheck"
  /\ Step(r, <<"duplicate">>)
  /\ IF checkSlipAlreadyUsed(Visible, slip[r].transRef)
     THEN Respond(r, "slip_already_used")
     ELSE /\ pc' = [pc EXCEPT ![r] = IF user[r] # NoUser THEN "limit" ELSE "record"]
          /\ UNCHANGED response
  /\ UNCHANGED <<inputs, slip, rows, balance, tx, day, seen, txerr, credited,
                 prior, notified, provider>>

\* the slip recorded before the limit is checked
CheckLimits_RecordsFirst(r) ==
  /\ UNCHANGED <<sent, page>>
  /\ pc[r] = "limit"
  /\ Step(r, <<"limit">>)
  /\ seen' = [seen EXCEPT ![r] = IF HasDepositLimit(user[r])
                                 THEN DailyTotal(Visible, user[r], day) ELSE -1]
  /\ rows' = rows \cup {NewRow(r, slip[r].transRef, slip[r].amount, user[r], day)}
  /\ IF ~checkDepositLimits(Visible, user[r], slip[r].amount, day).allowed
     THEN Respond(r, "deposit_limit_exceeded")
     ELSE /\ pc' = [pc EXCEPT ![r] = "record"]
          /\ UNCHANGED response
  /\ UNCHANGED <<inputs, slip, balance, tx, day, txerr, credited, prior,
                 notified, provider>>

\* await checkDepositLimits(user.id, data.data.amount.amount)
CheckLimits(r) ==
  /\ UNCHANGED <<sent, page>>
  /\ pc[r] = "limit"
  /\ Step(r, <<"limit">>)
  /\ seen' = [seen EXCEPT ![r] = IF HasDepositLimit(user[r])
                                 THEN DailyTotal(Visible, user[r], day) ELSE -1]
  /\ IF ~checkDepositLimits(Visible, user[r],
                            DepositAmount(claimed[r], slip[r].amount), day).allowed
     THEN Respond(r, "deposit_limit_exceeded")
     ELSE /\ pc' = [pc EXCEPT ![r] = "record"]
          /\ UNCHANGED response
  /\ UNCHANGED <<inputs, slip, rows, balance, tx, day, txerr, credited, prior,
                 notified, provider>>

\* recordVerifiedSlip without the check of userId
RecordNoUser_Settles(r) ==
  /\ UNCHANGED <<sent, page>>
  /\ pc[r] = "record"
  /\ user[r] = NoUser
  /\ rows' = rows \cup {NewRow(r, slip[r].transRef, slip[r].amount, user[r], day)}
  /\ Respond(r, "success")
  /\ UNCHANGED <<inputs, slip, balance, tx, day, seen, txerr, credited, prior,
                 notified, provider, steps>>

\* recordVerifiedSlip(transRef, amount, null) throws before the transaction
RecordNoUser(r) ==
  /\ UNCHANGED <<sent, page>>
  /\ pc[r] = "record"
  /\ user[r] = NoUser
  /\ txerr' = [txerr EXCEPT ![r] = "nouser"]
  /\ Respond(r, CatchResponse("nouser"))
  /\ UNCHANGED <<inputs, slip, rows, balance, tx, day, seen, credited, prior,
                 notified, provider, steps>>

\* the insert waits for an open transaction that inserted the same transRef
InsertBlocked(r) ==
  \E q \in Reqs \ {r} : \E row \in tx[q].rows : row.transRef = slip[r].transRef

\* tx.insert(paymentTransactions)
TxInsert(r) ==
  /\ UNCHANGED <<sent, page>>
  /\ pc[r] = "record"
  /\ user[r] # NoUser
  /\ ~InsertBlocked(r)
  /\ Step(r, <<"insert">>)
  /\ IF UniqueViolation(rows, slip[r].transRef)
     THEN /\ txerr' = [txerr EXCEPT ![r] = "unique"]
          /\ Respond(r, CatchResponse("unique"))
          /\ UNCHANGED tx
     ELSE /\ tx' = [tx EXCEPT ![r].rows =
                      {NewRow(r, slip[r].transRef,
                              DepositAmount(claimed[r], slip[r].amount), user[r], day)}]
          /\ pc' = [pc EXCEPT ![r] = "tx_update"]
          /\ UNCHANGED <<txerr, response>>
  /\ UNCHANGED <<inputs, slip, rows, balance, day, seen, credited, prior, notified,
                 provider>>

\* the notification sent from inside the transaction
TxUpdate_NotifiesEarly(r) ==
  /\ UNCHANGED page
  /\ pc[r] = "tx_update"
  /\ \A q \in Reqs \ {r} : tx[q].lock # user[r]
  /\ Step(r, <<"update">>)
  /\ tx' = [tx EXCEPT ![r].lock = user[r],
                      ![r].credit = DepositAmount(claimed[r], slip[r].amount)]
  /\ sent' = sent \cup {[id |-> r, userId |-> user[r], amount |-> slip[r].amount,
                           transRef |-> slip[r].transRef]}
  /\ pc' = [pc EXCEPT ![r] = "tx_commit"]
  /\ UNCHANGED <<inputs, slip, response, rows, balance, day, seen, txerr, credited,
                 prior, notified, provider>>

\* tx.update(userBalances): the row is locked until the transaction ends
TxUpdate(r) ==
  /\ UNCHANGED <<sent, page>>
  /\ pc[r] = "tx_update"
  /\ \A q \in Reqs \ {r} : tx[q].lock # user[r]
  /\ Step(r, <<"update">>)
  /\ tx' = [tx EXCEPT ![r].lock = user[r],
                      ![r].credit = DepositAmount(claimed[r], slip[r].amount)]
  /\ pc' = [pc EXCEPT ![r] = "tx_commit"]
  /\ UNCHANGED <<inputs, slip, response, rows, balance, day, seen, txerr, credited,
                 prior, notified, provider>>

\* the transaction commits: the row and the balance appear together
TxCommit(r) ==
  /\ UNCHANGED <<sent, page>>
  /\ pc[r] = "tx_commit"
  /\ Step(r, <<"settled">>)
  /\ rows' = rows \cup tx[r].rows
  /\ balance' = CreditBalance(balance, tx[r].lock, tx[r].credit)
  /\ credited' = [credited EXCEPT ![r] = BalanceOf(balance', user[r])
                                           - BalanceOf(balance, user[r])]
  /\ tx' = [tx EXCEPT ![r] = NoTx]
  /\ pc' = [pc EXCEPT ![r] = "notify"]
  /\ UNCHANGED <<inputs, slip, response, day, seen, txerr, prior, notified, provider>>

\* the store fails after the insert: the transaction rolls back and throws
TxFault(r) ==
  /\ UNCHANGED <<sent, page>>
  /\ pc[r] \in {"tx_update", "tx_commit"}
  /\ rows' = RolledBack(rows, tx[r].rows)
  /\ tx' = [tx EXCEPT ![r] = NoTx]
  /\ txerr' = [txerr EXCEPT ![r] = IF pc[r] = "tx_update" THEN "fault_before_update"
                                    ELSE "fault_after_update"]
  /\ Respond(r, CatchResponse("fault"))
  /\ UNCHANGED <<inputs, slip, balance, day, seen, credited, prior, notified,
                 provider, steps>>

\* sendDepositNotification(...) is called and awaited
Notify(r) ==
  /\ UNCHANGED page
  /\ pc[r] = "notify"
  /\ Step(r, <<"notified">>)
  /\ notified' = [notified EXCEPT ![r] = @ + 1]
  /\ sent' = sent \cup {[id |-> r, userId |-> user[r], amount |-> slip[r].amount,
                           transRef |-> slip[r].transRef]}
  /\ pc' = [pc EXCEPT ![r] = "notifying"]
  /\ UNCHANGED <<inputs, slip, response, rows, balance, tx, day, seen, txerr, credited,
                 prior, provider>>

\* the awaited notification resolves: the success response
NotifyDone(r) ==
  /\ UNCHANGED <<sent, page>>
  /\ pc[r] = "notifying"
  /\ Respond(r, "success")
  /\ UNCHANGED <<inputs, slip, rows, balance, tx, day, seen, txerr, credited, prior,
                 notified, provider, steps>>

\* the awaited notification rejects: the catch block answers
NotifyThrows(r) ==
  /\ UNCHANGED <<sent, page>>
  /\ pc[r] = "notifying"
  /\ txerr' = [txerr EXCEPT ![r] = "notify"]
  /\ Respond(r, CatchResponse("notify"))
  /\ UNCHANGED <<inputs, slip, rows, balance, tx, day, seen, credited, prior,
                 notified, provider, steps>>

\* midnight passes
Tick ==
  /\ UNCHANGED <<sent, page>>
  /\ day < MaxDay
  /\ day' = day + 1
  /\ UNCHANGED <<pc, inputs, slip, response, rows, balance, tx, seen, txerr,
                 credited, prior, notified, provider, steps>>

Next ==
  \/ \E r \in Reqs : Receive(r, Files)
  \/ \E r \in Reqs : FetchThrows(r)
  \/ \E r \in Reqs : FetchNotOk(r)
  \/ \E r \in Reqs : FetchNoData(r)
  \/ \E r \in Reqs : FetchData(r, SomeReceivers)
  \/ \E r \in Reqs : CheckUsed(r)
  \/ \E r \in Reqs : CheckLimits(r)
  \/ \E r \in Reqs : RecordNoUser(r)
  \/ \E r \in Reqs : TxInsert(r)
  \/ \E r \in Reqs : TxUpdate(r)
  \/ \E r \in Reqs : TxCommit(r)
  \/ \E r \in Reqs : TxFault(r)
  \/ \E r \in Reqs : Notify(r)
  \/ \E r \in Reqs : NotifyDone(r)
  \/ \E r \in Reqs : NotifyThrows(r)
  \/ Tick

Spec == Init /\ [][Next]_vars

\* the receiver check alone, over every receiver the provider may report
NextReceiver ==
  \/ Receive(1, Files)
  \/ FetchData(1, AllReceivers)

SpecReceiver == Init /\ [][NextReceiver]_vars

\* ------------------------------------------------ actions of GoldPrices
\* fetchData completes with four ok responses
FetchDataDone ==
  /\ fetches < MaxFetches
  /\ \E pricesData \in PriceLists, settingsData \in AllSettings :
       /\ productSettings' = settingsData
       /\ prices' = filterPricesWithSettings(pricesData, settingsData)
  /\ effectPending' = TRUE
  /\ lastEvent' = "fetchData"
  /\ fetches' = fetches + 1
  /\ UNCHANGED <<received, units, selectedGoldType, sellUnits, bathAmount>>
  /\ UNCHANGED route

\* fetchData completes with a response that is not ok, or throws
FetchDataFails ==
  /\ fetches < MaxFetches
  /\ fetches' = fetches + 1
  /\ UNCHANGED <<prices, productSettings, received, lastEvent, effectPending, units,
                 selectedGoldType, sellUnits, bathAmount>>
  /\ UNCHANGED route

\* the handler bound to price-update
PriceUpdate ==
  /\ \E data \in PriceLists :
       /\ received' = data
       /\ prices' = filterPricesWithSettings(data, MountSettings)
  /\ lastEvent' = "price-update"
  /\ UNCHANGED <<productSettings, effectPending, fetches, units, selectedGoldType,
                 sellUnits, bathAmount>>
  /\ UNCHANGED route

\* the handler bound to settings-update
SettingsUpdate ==
  /\ \E settings \in AllSettings :
       /\ productSettings' = settings
       /\ prices' = filterPricesWithSettings(prices, settings)
  /\ effectPending' = TRUE
  /\ lastEvent' = "settings-update"
  /\ UNCHANGED <<received, fetches, units, selectedGoldType, sellUnits, bathAmount>>
  /\ UNCHANGED route

\* useEffect on [productSettings]
SettingsEffect ==
  /\ effectPending
  /\ prices' = filterPricesWithSettings(prices, productSettings)
  /\ effectPending' = FALSE
  /\ UNCHANGED <<productSettings, received, lastEvent, fetches, units, selectedGoldType,
                 sellUnits, bathAmount>>
  /\ UNCHANGED route

NextGold ==
  \/ FetchDataDone
  \/ FetchDataFails
  \/ PriceUpdate
  \/ SettingsUpdate
  \/ SettingsEffect

SpecGold == Init /\ [][NextGold]_vars

\* ----------------------------------------------- actions of the sell dialog
\* the sell button of a price: the holdings are those fetchData loaded
handleSellClick ==
  /\ \E goldType \in GoldTypes, amount \in 0..MaxUnits :
       /\ selectedGoldType' = goldType
       /\ units' = amount
  /\ sellUnits' = -1
  /\ UNCHANGED <<prices, productSettings, received, lastEvent, effectPending, fetches,
                 bathAmount>>
  /\ UNCHANGED route

\* onChange of the gram input
ChangeSellUnits ==
  /\ selectedGoldType # ""
  /\ \E value \in GramInputs \cup {-1} :
       sellUnits' = IF value = -1 \/ value <= calculateGrams(units, selectedGoldType)
                    THEN value ELSE sellUnits
  /\ UNCHANGED <<prices, productSettings, received, lastEvent, effectPending, fetches,
                 units, selectedGoldType, bathAmount>>
  /\ UNCHANGED route

\* the 'sell all' button
SellAll ==
  /\ selectedGoldType # ""
  /\ sellUnits' = calculateGrams(units, selectedGoldType)
  /\ UNCHANGED <<prices, productSettings, received, lastEvent, effectPending, fetches,
                 units, selectedGoldType, bathAmount>>
  /\ UNCHANGED route

handleSellSubmit ==
  /\ selectedGoldType # ""
  /\ sellUnits # -1
  /\ bathAmount' = calculateBaht(sellUnits, selectedGoldType)
  /\ UNCHANGED <<prices, productSettings, received, lastEvent, effectPending, fetches,
                 units, selectedGoldType, sellUnits>>
  /\ UNCHANGED route

NextSell ==
  \/ handleSellClick
  \/ ChangeSellUnits
  \/ SellAll
  \/ handleSellSubmit

SpecSell == Init /\ [][NextSell]_vars

\* the checks of the file alone, over every file the form may carry
NextFiles ==
  \/ Receive(1, AllFiles)
  \/ FetchThrows(1)
  \/ FetchNotOk(1)
  \/ FetchNoData(1)
  \/ FetchData(1, SomeReceivers)

SpecFiles == Init /\ [][NextFiles]_vars

\* one request, whose own steps and whose store always go on, while the
\* provider and the notification sink answer or not as they please
NextOne ==
  \/ Receive(1, Files)
  \/ FetchThrows(1)
  \/ FetchNotOk(1)
  \/ FetchNoData(1)
  \/ FetchData(1, SomeReceivers)
  \/ CheckUsed(1)
  \/ CheckLimits(1)
  \/ RecordNoUser(1)
  \/ TxInsert(1)
  \/ TxUpdate(1)
  \/ TxCommit(1)
  \/ TxFault(1)
  \/ Notify(1)
  \/ NotifyDone(1)
  \/ NotifyThrows(1)
  \/ Tick

HandlerStep(r) ==
  \/ CheckUsed(r)
  \/ CheckLimits(r)
  \/ RecordNoUser(r)
  \/ TxInsert(r)
  \/ TxUpdate(r)
  \/ TxCommit(r)
  \/ Notify(r)

SpecFair == Init /\ [][NextOne]_vars /\ WF_vars(HandlerStep(1))

\* one request of a user whose UserBalance row does not exist
InitMissingRow == InitRouteOn(UserBalanceRows \ {1}) /\ InitPage

SpecMissingRow == InitMissingRow /\ [][NextOne]_vars

\* ------------------------------------------------------------ vocabulary
Rejections ==
  {"invalid_payload", "image_size_too_large", "invalid_image", "invalid_slip",
   "invalid_receiver", "slip_already_used", "deposit_limit_exceeded"}

Responded(r) == pc[r] = "responded"

RowsOf(ref) == {row \in rows : row.transRef = ref}

BankRowsOf(rs, u) == {row \in rs : row.userId = u /\ row.method = "BANK"}

Faulted(r) == txerr[r] \in {"fault_before_update", "fault_after_update"}

\* the provider verified the slip, with the expected receiver and a transRef
ValidSlip(r) ==
  /\ slip[r].verified
  /\ validateReceiver(slip[r].receiver)
  /\ slip[r].transRef # ""

\* the duplicate check found nothing and the limit check ran for a user with a tier
LimitChecked(r) == user[r] # NoUser /\ seen[r] >= 0

WithinLimit(r) ==
  LimitChecked(r) /\ seen[r] + slip[r].amount <= DepositLimitOf(user[r]).dailyLimit

\* ------------------------------------------------------------------ C1
\* C1: a request of an authenticated user whose slip is verified, has the
\* expected receiver, carries a transRef that the duplicate check did not find
\* and an amount that the limit check allowed, and whose settlement met no
\* store failure, is answered success, has raised the balance of its user by
\* exactly the verified amount, and has left exactly one row with its transRef,
\* the one it inserted.
C1_ValidSlipCreditedOnce ==
  \A r \in Reqs :
    (Responded(r) /\ ValidSlip(r) /\ WithinLimit(r) /\ txerr[r] = "none")
      => /\ response[r] = "success"
         /\ credited[r] = slip[r].amount
         /\ RowsOf(slip[r].transRef) =
              {NewRow(r, slip[r].transRef, slip[r].amount, user[r], x) : x \in Days}
                \cap rows
         /\ Cardinality(RowsOf(slip[r].transRef)) = 1

C1_Witness ==
  \E r \in Reqs :
    /\ Responded(r) /\ ValidSlip(r) /\ WithinLimit(r) /\ txerr[r] = "none"
    /\ response[r] = "success"
    /\ balance[user[r]] > slip[r].amount

\* ------------------------------------------------------------------ C2
\* C2: when a request is received after another one was answered success for
\* the same (non-empty) transRef, it is answered slip_already_used, credits
\* nothing, and the transRef keeps its single row, whoever sends it and
\* whatever amount it carries.
C2_SequentialReplayRejected ==
  \A p \in Reqs : \A r \in Reqs \ {p} :
    (/\ p \in prior[r]
     /\ ValidSlip(p) /\ ValidSlip(r)
     /\ slip[r].transRef = slip[p].transRef
     /\ Responded(r))
      => /\ response[r] = "slip_already_used"
         /\ credited[r] = 0
         /\ credited[p] = slip[p].amount
         /\ Cardinality(RowsOf(slip[r].transRef)) = 1

C2_Witness ==
  \E p \in Reqs : \E r \in Reqs \ {p} :
    /\ p \in prior[r]
    /\ ValidSlip(p) /\ ValidSlip(r)
    /\ slip[r].transRef = slip[p].transRef
    /\ user[r] # user[p]
    /\ slip[r].amount # slip[p].amount
    /\ response[r] = "slip_already_used"

\* ------------------------------------------------------------------ C3
\* C3: of two requests with the same transRef that both passed the duplicate
\* check and the limit check and met no store fault, exactly one commits and is
\* answered success, the other is rejected with one of the rejection reasons,
\* and no two rows ever share a transRef.
C3_ConcurrentOneSettles ==
  /\ \A ref \in TransRefs : Cardinality(RowsOf(ref)) <= 1
  /\ \A p \in Reqs : \A r \in Reqs \ {p} :
       (/\ Responded(p) /\ Responded(r)
        /\ ValidSlip(p) /\ ValidSlip(r)
        /\ slip[r].transRef = slip[p].transRef
        /\ WithinLimit(p) /\ WithinLimit(r)
        /\ ~Faulted(p) /\ ~Faulted(r))
         => \E w \in {p, r} : \E l \in {p, r} \ {w} :
              /\ response[w] = "success" /\ credited[w] = slip[w].amount
              /\ response[l] \in Rejections /\ credited[l] = 0

\* ------------------------------------------------------------------ C4
\* C4: a request whose insert is refused because a row with its transRef was
\* committed after its duplicate check is answered slip_already_used, and it
\* credits nothing.
C4_LateDuplicateReported ==
  \A r \in Reqs :
    (Responded(r) /\ txerr[r] = "unique")
      => response[r] = "slip_already_used" /\ credited[r] = 0

\* ------------------------------------------------------------------ C5
\* C5: in every state, as any request reads it, the balance of every user
\* equals its initial balance plus the amounts of the BANK rows of that user:
\* no row without its credit, no credit without its row, no lost update.
C5_BalanceMatchesRows ==
  \A u \in Users :
    /\ balance[u] = SumAmounts(BankRowsOf(Visible, u))
    /\ balance[u] = SumAmounts(BankRowsOf(rows, u))

C5_Witness ==
  \E p \in Reqs : \E r \in Reqs \ {p} :
    /\ user[p] = user[r]
    /\ p \notin prior[r] /\ r \notin prior[p]
    /\ credited[p] > 0 /\ credited[r] > 0
    /\ balance[user[p]] = slip[p].amount + slip[r].amount

\* ------------------------------------------------------------------ C6
\* C6: a settlement that fails after its insert leaves neither its row nor its
\* credit in the store, and the request is answered server_error.
C6_FaultRollsBack ==
  \A r \in Reqs :
    Faulted(r)
      => /\ response[r] = "server_error"
         /\ ~\E row \in rows : row.id = r
         /\ credited[r] = 0
         /\ balance[user[r]] = SumAmounts(BankRowsOf(rows, user[r]))

C6_Witness ==
  \E r \in Reqs : txerr[r] = "fault_after_update" /\ response[r] = "server_error"

\* ------------------------------------------------------------------ C7
AllFourMatch(receiver) ==
  /\ receiver.present
  /\ receiver.th = EXPECTED_RECEIVER.th
  /\ receiver.en = EXPECTED_RECEIVER.en
  /\ receiver.type = EXPECTED_RECEIVER.type
  /\ receiver.account = EXPECTED_RECEIVER.account

\* C7: a provider-verified slip is answered invalid_receiver exactly when the
\* Thai name, the English name, the account type or the account number of its
\* receiver differs from the expected one or is absent, whatever its amount
\* and transRef; a slip passes the receiver check only when the four match.
C7_ReceiverMismatchRejected ==
  \A r \in Reqs :
    slip[r].verified
      => /\ (response[r] = "invalid_receiver") <=> ~AllFourMatch(slip[r].receiver)
         /\ (pc[r] = "dupcheck" \/ response[r] = "success")
              <=> AllFourMatch(slip[r].receiver)

C7_Witness ==
  \E r \in Reqs :
    /\ slip[r].verified
    /\ slip[r].receiver.present
    /\ slip[r].receiver.th = EXPECTED_RECEIVER.th
    /\ slip[r].receiver.en = Absent
    /\ slip[r].receiver.type = EXPECTED_RECEIVER.type
    /\ slip[r].receiver.account = EXPECTED_RECEIVER.account
    /\ slip[r].amount = MaxAmount
    /\ response[r] = "invalid_receiver"

\* ------------------------------------------------------------------ C8
\* C8: for a user with a tier, the limit check answers deposit_limit_exceeded
\* exactly when the daily total it read plus the verified amount is greater
\* than dailyLimit, and lets the request go on otherwise, also when the sum
\* equals dailyLimit; with dailyLimit 50000 and a total of 48000, 3000 is
\* refused and 2000 is let through, making the total 50000.
C8_LimitExactlyWhenExceeded ==
  /\ \A r \in Reqs :
       LimitChecked(r)
         => /\ (response[r] = "deposit_limit_exceeded")
                 <=> (seen[r] + slip[r].amount > DepositLimitOf(user[r]).dailyLimit)
            /\ (seen[r] + slip[r].amount <= DepositLimitOf(user[r]).dailyLimit)
                 => pc[r] \in {"record", "tx_update", "tx_commit", "notify", "notifying",
                              "responded"}
  /\ \A r \in Reqs :
       (pc[r] = "limit" /\ HasDepositLimit(user[r]))
         => checkDepositLimits(rows, user[r], slip[r].amount, day).allowed
              = (DailyTotal(rows, user[r], day) + slip[r].amount
                   <= DepositLimitOf(user[r]).dailyLimit)
  /\ ExceedsLimit(48000, 3000, 50000)
  /\ ~ExceedsLimit(48000, 2000, 50000)

C8_Witness ==
  \E r \in Reqs :
    /\ LimitChecked(r)
    /\ seen[r] > 0
    /\ seen[r] + slip[r].amount = DepositLimitOf(user[r]).dailyLimit
    /\ response[r] = "success"
    /\ DailyTotal(rows, user[r], day) = DepositLimitOf(user[r]).dailyLimit

\* ------------------------------------------------------------------ C9
\* C9: for every user with a tier and every calendar day, the amounts of the
\* rows of that user created on that day add up to at most dailyLimit.
C9_DailyCeiling ==
  \A u \in Users : \A d \in Days :
    HasDepositLimit(u)
      => SumAmounts({row \in rows : row.userId = u /\ row.createdAt = d})
           <= DepositLimitOf(u).dailyLimit

\* ------------------------------------------------------------------ C10
\* C10: a request of a user with no tier is never answered success, inserts no
\* row and credits nothing, whatever its slip and amount.
C10_NoTierAlwaysRejected ==
  \A r \in Reqs :
    (user[r] \in Users /\ ~HasDepositLimit(user[r]) /\ pc[r] # "idle")
      => /\ response[r] # "success"
         /\ credited[r] = 0
         /\ ~\E row \in Visible : row.id = r
         /\ balance[user[r]] = 0

\* ------------------------------------------------------------------ C11
ProviderCalls(r) ==
  Cardinality({i \in DOMAIN steps[r] : steps[r][i] = "provider"})

\* C11: a request with no file is answered invalid_payload, one with a file
\* of more than 10MB image_size_too_large, one with a file of at most 10MB
\* whose type does not start with image/ invalid_image, each before any call
\* to the provider; an image of exactly 10MB is not refused and goes on to
\* the provider.
C11_FileChecksBeforeProvider ==
  \A r \in Reqs :
    pc[r] # "idle"
      => /\ ~file[r].present
              => response[r] = "invalid_payload" /\ ProviderCalls(r) = 0
         /\ (file[r].present /\ file[r].size > 10 * 1024 * 1024)
              => response[r] = "image_size_too_large" /\ ProviderCalls(r) = 0
         /\ (file[r].present /\ file[r].size <= 10 * 1024 * 1024
             /\ ~StartsWith(file[r].type, <<"image", "/">>))
              => response[r] = "invalid_image" /\ ProviderCalls(r) = 0
         /\ (file[r].present /\ file[r].size = 10 * 1024 * 1024)
              => response[r] # "image_size_too_large"
         /\ (file[r].present /\ file[r].size <= 10 * 1024 * 1024
             /\ StartsWith(file[r].type, <<"image", "/">>))
              => (pc[r] = "fetch" \/ ProviderCalls(r) = 1)

C11_Witness ==
  \E r \in Reqs :
    /\ file[r].present
    /\ file[r].size = 10 * 1024 * 1024
    /\ ProviderCalls(r) = 1
    /\ provider[r] = "data"

\* ------------------------------------------------------------------ C12
C12_State ==
  \A r \in Reqs :
    response[r] \in Rejections
      => /\ ~\E row \in rows : row.id = r
         /\ credited[r] = 0
         /\ notified[r] = 0
         /\ tx[r] = NoTx

C12_Step ==
  \A r \in Reqs :
    (response[r] = "none" /\ response'[r] \in Rejections)
      => rows' = rows /\ balance' = balance /\ notified' = notified /\ tx' = tx

\* C12: the step that rejects a request (invalid_payload, image_size_too_large,
\* invalid_image, invalid_slip, invalid_receiver, slip_already_used,
\* deposit_limit_exceeded) changes no PaymentTransaction row and no balance and
\* sends no notification, and a rejected request has inserted no row, credited
\* nothing and notified nobody.
C12_RejectionsChangeNothing == []C12_State /\ [][C12_Step]_vars

C12_Witness ==
  \E r \in Reqs :
    /\ response[r] = "deposit_limit_exceeded"
    /\ HasDepositLimit(user[r])
    /\ rows # {}
    /\ balance[user[r]] > 0

\* ------------------------------------------------------------------ C13
IsPrefix(s, t) == Len(s) <= Len(t) /\ SubSeq(t, 1, Len(s)) = s

StepOrder(r) ==
  IF user[r] = NoUser
  THEN <<"provider", "receiver", "duplicate", "insert">>
  ELSE <<"provider", "receiver", "duplicate", "limit", "insert", "update", "settled",
         "notified">>

\* C13: the steps of a request follow the order receiver, duplicate, limit;
\* a verified slip with a wrong receiver is answered invalid_receiver before
\* the duplicate and limit checks run, and a slip whose transRef was recorded
\* before the request came is answered slip_already_used before the limit
\* check runs, whatever its amount and whether or not its user has a tier.
C13_EarliestReasonWins ==
  \A r \in Reqs :
    /\ IsPrefix(steps[r], StepOrder(r))
    /\ (slip[r].verified /\ ~validateReceiver(slip[r].receiver))
         => response[r] = "invalid_receiver" /\ steps[r] = <<"provider", "receiver">>
    /\ \A p \in prior[r] :
         (/\ ValidSlip(p) /\ ValidSlip(r)
          /\ slip[r].transRef = slip[p].transRef
          /\ Responded(r))
           => /\ response[r] = "slip_already_used"
              /\ steps[r] = <<"provider", "receiver", "duplicate">>

C13_Witness ==
  \E r \in Reqs : \E p \in prior[r] :
    /\ ValidSlip(p) /\ ValidSlip(r)
    /\ slip[r].transRef = slip[p].transRef
    /\ user[r] = user[p]
    /\ slip[p].amount + slip[r].amount > DepositLimitOf(user[r]).dailyLimit
    /\ HasDepositLimit(user[r])
    /\ response[r] = "slip_already_used"

\* ------------------------------------------------------------------ C14
\* C14: when the awaited notification fails after the settlement committed,
\* the request is still answered success, and the row and the credit stay.
C14_NotifyFailureStillSuccess ==
  \A r \in Reqs :
    txerr[r] = "notify"
      => /\ response[r] = "success"
         /\ credited[r] = slip[r].amount
         /\ \E row \in rows : row.id = r

\* ------------------------------------------------------------------ C15
\* C15: once the notification is sent, the request is answered, even if the
\* notification sink never completes; and a request notifies at most once.
C15_NotificationDoesNotBlock ==
  /\ \A r \in Reqs : (pc[r] = "notifying") ~> Responded(r)
  /\ [](\A r \in Reqs : notified[r] <= 1)

\* ------------------------------------------------------------------ C16
\* C16: when the call to the provider throws, the request is answered
\* invalid_slip and takes no step after the call.
C16_NetworkFailureInvalidSlip ==
  \A r \in Reqs :
    provider[r] = "throw"
      => response[r] = "invalid_slip" /\ steps[r] = <<"provider">>

\* ------------------------------------------------------------------ C17
\* C17: when the provider answers with a status that is not 2xx, or with a
\* body without data, the request is answered invalid_slip, no query or change
\* of the store follows, and no request calls the provider more than once.
C17_ProviderRefusalInvalidSlip ==
  \A r \in Reqs :
    /\ ProviderCalls(r) <= 1
    /\ provider[r] \in {"not_ok", "no_data"}
         => /\ response[r] = "invalid_slip"
            /\ steps[r] = <<"provider">>
            /\ seen[r] = -1
            /\ credited[r] = 0
            /\ ~\E row \in Visible : row.id = r

C17_Witness ==
  \E p \in Reqs : \E r \in Reqs :
    /\ provider[p] = "not_ok" /\ response[p] = "invalid_slip"
    /\ provider[r] = "no_data" /\ response[r] = "invalid_slip"

\* ------------------------------------------------------------------ C18
\* C18: every request that was received is answered in the end, also when
\* the provider never answers.
C18_EveryRequestResponds ==
  \A r \in Reqs : (pc[r] = "fetch") ~> Responded(r)

\* ------------------------------------------------------------------ C19
\* C19: the claimed amount decides nothing: the limit check compares the
\* daily total plus the verified amount with dailyLimit, the row and the
\* credit carry the verified amount, and two requests of one user with the
\* same verified amount that read the same daily total get the same answer of
\* the limit check whatever amounts they claim.
C19_ClaimedAmountIgnored ==
  /\ \A r \in Reqs :
       /\ credited[r] \in {0, slip[r].amount}
       /\ \A row \in Visible : row.id = r => row.amount = slip[r].amount
       /\ LimitChecked(r)
            => (response[r] = "deposit_limit_exceeded")
                 <=> (seen[r] + slip[r].amount > DepositLimitOf(user[r]).dailyLimit)
  /\ \A p \in Reqs : \A r \in Reqs \ {p} :
       (/\ LimitChecked(p) /\ LimitChecked(r)
        /\ user[p] = user[r]
        /\ slip[p].amount = slip[r].amount
        /\ seen[p] = seen[r]
        /\ claimed[p] # claimed[r])
         => (response[p] = "deposit_limit_exceeded")
              <=> (response[r] = "deposit_limit_exceeded")

C19_Witness ==
  \E p \in Reqs : \E r \in Reqs \ {p} :
    /\ LimitChecked(p) /\ LimitChecked(r)
    /\ user[p] = user[r]
    /\ slip[p].amount = slip[r].amount
    /\ seen[p] = seen[r]
    /\ claimed[p] # claimed[r]
    /\ claimed[r] > DepositLimitOf(user[r]).dailyLimit - seen[r]
    /\ response[p] = "success" /\ response[r] = "success"
    /\ credited[r] = slip[r].amount

\* ------------------------------------------------------------------ C20
\* C20: every step leaves every row of the table in it, unchanged, and lowers
\* no balance.
C20_AppendOnly ==
  [][/\ rows \subseteq rows'
     /\ \A u \in Users : balance'[u] >= balance[u]]_vars

C20_Witness ==
  \E r \in Reqs : \E p \in prior[r] :
    /\ \E row \in rows : row.id = p /\ row.createdAt < day
    /\ Faulted(r)

\* ------------------------------------------------------------------ C21
RECURSIVE SettledToday(_, _)
\* the amounts of the requests of S that user u settled on the current day
SettledToday(S, u) ==
  IF S = {} THEN 0
  ELSE LET q == CHOOSE x \in S : TRUE
       IN (IF \E row \in rows : row.id = q /\ user[q] = u /\ row.createdAt = day
           THEN slip[q].amount ELSE 0) + SettledToday(S \ {q}, u)

\* C21: the daily total a limit check reads is the sum of the amounts the
\* requesting user settled on the current day, 0 when there are none: rows of
\* other users and of earlier days do not count.
C21_TodayTotalOfUserAndDay ==
  [][\A r \in Reqs :
       (seen[r] = -1 /\ seen'[r] # -1) => seen'[r] = SettledToday(Reqs, user[r])]_vars

C21_Witness ==
  \E r \in Reqs : \E p \in prior[r] :
    /\ user[p] = user[r]
    /\ LimitChecked(r)
    /\ seen[r] = 0
    /\ slip[p].amount + slip[r].amount > DepositLimitOf(user[r]).dailyLimit
    /\ \E rowp \in rows : \E rowr \in rows :
         /\ rowp.id = p /\ rowr.id = r
         /\ rowp.createdAt < rowr.createdAt

\* ------------------------------------------------------------------ C22
\* C22: the steps of a request follow the order provider, receiver,
\* duplicate, limit, settled, notified; a request sends at most one
\* notification, only after its own settlement committed, and a notification
\* carries the user, the transRef and the amount of the committed row.
C22_NotifiedAfterSettled ==
  /\ \A r \in Reqs :
       /\ IsPrefix(steps[r], StepOrder(r))
       /\ notified[r] <= 1
       /\ Cardinality({n \in sent : n.id = r}) = notified[r]
       /\ notified[r] = 1
            => /\ credited[r] = slip[r].amount
               /\ \E row \in rows : row.id = r
       /\ response[r] = "success" /\ slip[r].transRef # "" => notified[r] = 1
  /\ \A n \in sent :
       \E row \in rows :
         /\ row.id = n.id
         /\ row.transRef = n.transRef
         /\ row.amount = n.amount
         /\ row.userId = n.userId

C22_Witness ==
  \E r \in Reqs : \E n \in sent :
    /\ n.id = r
    /\ response[r] = "success"
    /\ steps[r] = <<"provider", "receiver", "duplicate", "limit", "insert", "update",
                    "settled", "notified">>

\* ------------------------------------------------------------------ C23
\* C23: a request answered success has its row in the table, with its
\* transRef, and credited its verified amount.
C23_SuccessOnlyWhenSettled ==
  \A r \in Reqs :
    response[r] = "success"
      => /\ \E row \in rows : row.id = r /\ row.transRef = slip[r].transRef
         /\ credited[r] = slip[r].amount

\* ------------------------------------------------------------------ C24
\* C24: a request without a user runs no limit check, opens no transaction,
\* inserts no row, credits nothing and notifies nobody; when its slip passes
\* the receiver and duplicate checks it is answered server_error.
C24_NoUserNeverSettles ==
  \A r \in Reqs :
    (user[r] = NoUser /\ pc[r] # "idle")
      => /\ seen[r] = -1
         /\ \A i \in DOMAIN steps[r] : steps[r][i] \notin {"limit", "insert", "update"}
         /\ tx[r] = NoTx
         /\ ~\E row \in rows : row.id = r
         /\ credited[r] = 0
         /\ notified[r] = 0
         /\ ~\E n \in sent : n.id = r
         /\ (ValidSlip(r) /\ Responded(r) /\ response[r] # "slip_already_used")
              => response[r] = "server_error" /\ txerr[r] = "nouser"

C24_Witness ==
  \E r \in Reqs :
    /\ user[r] = NoUser
    /\ ValidSlip(r)
    /\ steps[r] = <<"provider", "receiver", "duplicate">>
    /\ rows # {}
    /\ response[r] = "server_error"
    /\ txerr[r] = "nouser"

\* ------------------------------------------------------------------ C25
\* C25: a request whose row is committed has credited the amount of the row
\* to the balance of its user.
C25_RowOnlyWithCredit ==
  \A r \in Reqs : \A row \in rows :
    row.id = r
      => /\ credited[r] = row.amount
         /\ BalanceOf(balance, row.userId) >= row.amount

\* ------------------------------------------------------------------ C26
\* C26: after a price-update event is handled, the displayed prices are the
\* received prices whose gold type is active in the current product settings.
C26_PriceUpdateUsesCurrentSettings ==
  lastEvent = "price-update"
    => prices = filterPricesWithSettings(received, productSettings)

\* ------------------------------------------------------------------ C27
\* the prices the render offers for buy and sell
Offered ==
  {price \in prices :
     /\ price.name \in DOMAIN GOLD_TYPES
     /\ productSettings[GOLD_TYPES[price.name]] = "active"}

\* C27: once the effect on the settings has run, every price in the prices
\* state has a known gold type whose setting is active, and the render never
\* offers a price of an inactive or unknown gold type.
C27_OnlyActiveTypesDisplayed ==
  /\ ~effectPending
       => \A price \in prices :
            /\ price.name \in {"Samakhom", "99.99%"}
            /\ productSettings[GOLD_TYPES[price.name]] = "active"
  /\ \A price \in Offered :
       /\ price.name \in {"Samakhom", "99.99%"}
       /\ productSettings[GOLD_TYPES[price.name]] = "active"

C27_Witness ==
  /\ ~effectPending
  /\ lastEvent = "settings-update"
  /\ fetches >= 1
  /\ prices # {}
  /\ \E t \in GoldTypes : productSettings[t] = "inactive"
  /\ \E t \in GoldTypes : productSettings[t] = "active"

\* ------------------------------------------------------------------ C28
\* C28: the amount handleSellSubmit sends is never more than the holdings of
\* the gold type sold.
C28_SellWithinHoldings ==
  bathAmount # -1 => bathAmount <= units

====
